---- MODULE Spec2Model ----
(***************************************************************************)
(* MafftCline (src/analysis/mafft.py): a command-line wrapper that writes  *)
(* the input sequences to inseq.fasta in a scratch directory, runs         *)
(*   <exepath> <clargs...> inseq.fasta > outalign.fasta                    *)
(* and parses outalign.fasta back into an alignment.                       *)
(*                                                                         *)
(* Strings that the code joins with blanks are modelled as sequences of    *)
(* words, so that joining is concatenation; a text file is a sequence of   *)
(* lines, a line a sequence of words or of residue characters.  An         *)
(* optional value (Python None or a value) is <<>> or <<value>>.           *)
(***************************************************************************)
EXTENDS Naturals, Sequences, FiniteSets

VARIABLES
    inseqs,        \* self._inseqs
    curr_cline,    \* self._curr_cline  (base class attribute)
    curr_workdir,  \* self._curr_workdir (base class attribute)
    inseq_path,    \* self._inseq_path
    status,        \* the retained exit status of the last process
    fs,            \* the files of the current working directory
    lastCall,      \* the method the caller invoked last
    argSeqs,       \* its bioseqs argument, if it took one
    argClargs,     \* its *clargs, if it took them
    raised,        \* the exception it raised, or NoError
    returned,      \* the value it returned, if any
    probed,        \* whether it asked the file system for the output file
    spawned        \* whether it started the external process

prog == <<inseqs, curr_cline, curr_workdir, inseq_path, status, fs>>
obs  == <<lastCall, argSeqs, argClargs, raised, returned, probed, spawned>>
vars == <<inseqs, curr_cline, curr_workdir, inseq_path, status, fs,
          lastCall, argSeqs, argClargs, raised, returned, probed, spawned>>

None == <<>>
Some(x) == <<x>>

\* ------------------------------------------------------------ constants

INSEQ_FILENAME == "inseq.fasta"
OUTALIGN_FILENAME == "outalign.fasta"
exepath == "/usr/bin/mafft"
FileNames == {INSEQ_FILENAME, OUTALIGN_FILENAME}

\* The exceptions the methods raise; the first four are AssertionErrors,
\* told apart by the assert statement that failed.
NoError == "none"
PreconditionError == "AssertionError: 2 <= len (bioseqs)"
StateError == "AssertionError: self._curr_cline"
NotFoundError == "AssertionError: can't find outfile"
RecordTypeError == "AssertionError: isinstance (s, SeqRecord.SeqRecord)"
NoRecordsError == "ValueError: No records found in handle"
LengthError == "ValueError: Sequences must all be the same length"
JoinError == "AttributeError: 'NoneType' object has no attribute 'endswith'"
NameError == "NameError: global name 'utils' is not defined"

\* ------------------------------------------------------------ inputs

MaxSeqs == 2

rec(id, residues) == [isrec |-> TRUE, id |-> id, seq |-> residues]
SeqRecords ==
    { rec(<<"A">>, <<"A", "C">>),
      rec(<<"B">>, <<"A", "G">>),
      rec(<<"C", "x">>, <<"T">>) }    \* a blank in the identifier, and shorter
NotARecord == [isrec |-> FALSE, id |-> <<>>, seq |-> <<>>]
Elements == SeqRecords \cup {NotARecord}

SeqsUpTo(S, n) == UNION {[1..k -> S] : k \in 0..n}
Collections == SeqsUpTo(Elements, MaxSeqs)

\* Command-line arguments; an argument such as '--retree 2' is two words.
ClargChoices ==
    { <<>>,
      << <<"--op", "3">>, <<"--quiet">> >> }

\* ------------------------------------------------------------ helpers

RECURSIVE Flatten(_)
Flatten(ss) == IF ss = <<>> THEN <<>> ELSE Head(ss) \o Flatten(Tail(ss))

Truthy(opt) == opt # None /\ opt[1] # <<>>

\* ------------------------------------------------------------ FASTA

\* SeqIO.write (inseqs, inseq_hndl, 'fasta'): per record, a title line
\* '>' + id and a line of residues, in the order of the list.
FastaLines(r) == << <<">">> \o r.id, r.seq >>
SeqIO_write(recs) == Flatten([i \in 1..Len(recs) |-> FastaLines(recs[i])])

IsTitle(line) == line # <<>> /\ line[1] = ">"
\* The identifier the FASTA reader gives a record: the first word of the title.
TitleId(line) == IF Len(line) >= 2 THEN <<line[2]>> ELSE <<>>

RECURSIVE FastaParse(_, _)
FastaParse(lines, acc) ==
    IF lines = <<>> THEN acc
    ELSE IF IsTitle(Head(lines))
         THEN FastaParse(Tail(lines),
                  Append(acc, [id |-> TitleId(Head(lines)), seq |-> <<>>]))
    ELSE IF acc = <<>>
         THEN FastaParse(Tail(lines), acc)
    ELSE FastaParse(Tail(lines),
             [acc EXCEPT ![Len(acc)].seq = @ \o Head(lines)])

\* AlignIO.read (aln_hndl, 'fasta'): the records of the file as one
\* alignment; a file without records, or with records of different lengths,
\* is a ValueError.
AlignIO_read(text) ==
    LET recs == FastaParse(text, <<>>) IN
    IF recs = <<>>
    THEN [exc |-> NoRecordsError, aln |-> None]
    ELSE IF \E i, j \in 1..Len(recs) : Len(recs[i].seq) # Len(recs[j].seq)
    THEN [exc |-> LengthError, aln |-> None]
    ELSE [exc |-> NoError, aln |-> Some(recs)]

\* ------------------------------------------------------------ the tool

\* What running the command line leaves behind: the exit status and the
\* output file.  Status 0 with a verbatim copy of the input file (the stub
\* tool); a non-zero status with no output file, with the empty file the
\* redirection made, or with output written before the failure.
ToolOutcomes(intext) ==
    { [status |-> 0, out |-> Some(intext)],
      [status |-> 1, out |-> None],
      [status |-> 1, out |-> Some(<<>>)],
      [status |-> 1, out |-> Some(intext)] }

\* ------------------------------------------------------------ command line

\* clineapp.ClineApp._build_cmdline: the tool path and the arguments, joined
\* by blanks.
ClineApp_build_cmdline(clargs) == <<exepath>> \o Flatten(clargs)

\* Mutant: the caller's arguments after the input filename.
build_cmdline_args_last(clargs) ==
    ClineApp_build_cmdline(<< <<INSEQ_FILENAME>> >> \o clargs)
        \o <<">", OUTALIGN_FILENAME>>

\* Mutant: the return statement forgotten, so nothing is built.
build_cmdline_no_return(clargs) == <<>>

build_cmdline(clargs) ==
    ClineApp_build_cmdline(clargs \o << <<INSEQ_FILENAME>> >>)
        \o <<">", OUTALIGN_FILENAME>>

\* ------------------------------------------------------------ the runner

NoFiles == [f \in FileNames |-> None]

\* MafftCline.__init__, through clineapp.ClineApp.__init__: nothing has run.
Init ==
    /\ inseqs = None
    /\ curr_cline = None
    /\ curr_workdir = None
    /\ inseq_path = None
    /\ status = None
    /\ fs = NoFiles
    /\ lastCall = "init"
    /\ argSeqs = None
    /\ argClargs = None
    /\ raised = NoError
    /\ returned = None
    /\ probed = FALSE
    /\ spawned = FALSE

\* clineapp.ClineApp.setup_workdir: a new scratch directory.  The runner
\* never reads a directory it has left, so fs holds the files of the current
\* one only, and a new directory shows as all files absent.
ClineApp_setup_workdir == "scratchdir"

\* scratchfile.make_scratch_file (name, dir): the path of the file.
make_scratch_file(name, dir) == <<dir, name>>

Reverse(q) == [i \in 1..Len(q) |-> q[Len(q) + 1 - i]]

\* Mutant: the list of sequences built back to front.
setup_workdir_reversed(seqs) ==
    LET dir == ClineApp_setup_workdir
        path == make_scratch_file(INSEQ_FILENAME, dir)
    IN  IF \E i \in 1..Len(seqs) : ~seqs[i].isrec
        THEN [dir |-> dir, path |-> path, exc |-> RecordTypeError,
              files |-> NoFiles]
        ELSE [dir |-> dir, path |-> path, exc |-> NoError,
              files |-> [NoFiles EXCEPT
                            ![INSEQ_FILENAME] = Some(SeqIO_write(Reverse(seqs)))]]

\* MafftCline.setup_workdir: the directory, the path of the input file and
\* the files in the directory; exc is the failed assertion, if an element of
\* self._inseqs is no SeqRecord.
setup_workdir(seqs) ==
    LET dir == ClineApp_setup_workdir
        path == make_scratch_file(INSEQ_FILENAME, dir)
    IN  IF \E i \in 1..Len(seqs) : ~seqs[i].isrec
        THEN [dir |-> dir, path |-> path, exc |-> RecordTypeError,
              files |-> NoFiles]
        ELSE [dir |-> dir, path |-> path, exc |-> NoError,
              files |-> [NoFiles EXCEPT ![INSEQ_FILENAME] = Some(SeqIO_write(seqs))]]

\* clineapp.ClineApp.call_cmdline: set up the directory, build the command
\* line and keep it, run it and keep its exit status.  A non-zero status is
\* kept, not raised.  seqs is self._inseqs.
call_cmdline(seqs, clargs) ==
    LET w == setup_workdir(seqs) IN
    /\ curr_workdir' = Some(w.dir)
    /\ inseq_path' = Some(w.path)
    /\ IF w.exc # NoError
       THEN /\ fs' = w.files
            /\ raised' = w.exc
            /\ spawned' = FALSE
            /\ UNCHANGED <<curr_cline, status>>
       ELSE /\ curr_cline' = Some(build_cmdline(clargs))
            /\ \E o \in ToolOutcomes(w.files[INSEQ_FILENAME][1]) :
                  /\ status' = Some(o.status)
                  /\ fs' = [w.files EXCEPT ![OUTALIGN_FILENAME] = o.out]
            /\ raised' = NoError
            /\ spawned' = TRUE

\* Mutant: one sequence is enough.
run_precondition_one(bioseqs) == 1 <= Len(bioseqs)

run_precondition(bioseqs) == 2 <= Len(bioseqs)

\* Mutant: the sequences are stored before the precondition is tested.
run_store_first(bioseqs, clargs) ==
    /\ argSeqs' = Some(bioseqs)
    /\ argClargs' = Some(clargs)
    /\ returned' = None
    /\ probed' = FALSE
    /\ inseqs' = Some(bioseqs)
    /\ IF ~run_precondition(bioseqs)
       THEN /\ raised' = PreconditionError
            /\ spawned' = FALSE
            /\ UNCHANGED <<curr_cline, curr_workdir, inseq_path, status, fs>>
       ELSE call_cmdline(bioseqs, clargs)

\* MafftCline.run (bioseqs, *clargs)
run(bioseqs, clargs) ==
    /\ argSeqs' = Some(bioseqs)
    /\ argClargs' = Some(clargs)
    /\ returned' = None
    /\ probed' = FALSE
    /\ IF ~run_precondition(bioseqs)
       THEN /\ raised' = PreconditionError
            /\ spawned' = FALSE
            /\ UNCHANGED prog
       ELSE /\ inseqs' = Some(bioseqs)
            /\ call_cmdline(bioseqs, clargs)

QuickArgs == << <<"--retree", "2">>, <<"--maxiterate", "0">> >>

\* Mutant: the two preset flags in the other order.
run_fftns_swapped(bioseqs) ==
    run(bioseqs, << <<"--maxiterate", "0">>, <<"--retree", "2">> >>)

\* MafftCline.run_fftns (bioseqs), also named run_quick_and_dirty
run_fftns(bioseqs) == run(bioseqs, QuickArgs)

IOError == "IOError: No such file or directory"

\* Mutant: the output file is looked for before the command line is.
extract_results_path_first ==
    IF curr_workdir = None
    THEN [raised |-> JoinError, returned |-> None, probed |-> FALSE]
    ELSE IF fs[OUTALIGN_FILENAME] = None
    THEN [raised |-> NotFoundError, returned |-> None, probed |-> TRUE]
    ELSE IF ~Truthy(curr_cline)
    THEN [raised |-> StateError, returned |-> None, probed |-> TRUE]
    ELSE LET r == AlignIO_read(fs[OUTALIGN_FILENAME][1])
         IN  [raised |-> r.exc, returned |-> r.aln, probed |-> TRUE]

\* Mutant: no test that the output file exists; opening it fails.
extract_results_no_exists ==
    IF ~Truthy(curr_cline)
    THEN [raised |-> StateError, returned |-> None, probed |-> FALSE]
    ELSE IF curr_workdir = None
    THEN [raised |-> JoinError, returned |-> None, probed |-> FALSE]
    ELSE IF fs[OUTALIGN_FILENAME] = None
    THEN [raised |-> IOError, returned |-> None, probed |-> FALSE]
    ELSE LET r == AlignIO_read(fs[OUTALIGN_FILENAME][1])
         IN  [raised |-> r.exc, returned |-> r.aln, probed |-> FALSE]

\* Mutant: a missing output file read as an alignment without rows.
extract_results_missing_as_empty ==
    IF ~Truthy(curr_cline)
    THEN [raised |-> StateError, returned |-> None, probed |-> FALSE]
    ELSE IF curr_workdir = None
    THEN [raised |-> JoinError, returned |-> None, probed |-> FALSE]
    ELSE IF fs[OUTALIGN_FILENAME] = None
    THEN [raised |-> NoError, returned |-> Some(<<>>), probed |-> TRUE]
    ELSE LET r == AlignIO_read(fs[OUTALIGN_FILENAME][1])
         IN  [raised |-> r.exc, returned |-> r.aln, probed |-> TRUE]

\* MafftCline.extract_results: what the call raises and returns, and whether
\* it got as far as os.path.exists.
extract_results ==
    IF ~Truthy(curr_cline)
    THEN [raised |-> StateError, returned |-> None, probed |-> FALSE]
    ELSE IF curr_workdir = None
    THEN [raised |-> JoinError, returned |-> None, probed |-> FALSE]
    ELSE IF fs[OUTALIGN_FILENAME] = None
    THEN [raised |-> NotFoundError, returned |-> None, probed |-> TRUE]
    ELSE LET r == AlignIO_read(fs[OUTALIGN_FILENAME][1])
         IN  [raised |-> r.exc, returned |-> r.aln, probed |-> TRUE]

\* MafftCline.extract_diagnostics: the first turn of the loop joins the path
\* and then looks up utils, a name the module never binds.
extract_diagnostics ==
    IF curr_workdir = None
    THEN [raised |-> JoinError, returned |-> None]
    ELSE [raised |-> NameError, returned |-> None]

\* ------------------------------------------------------------ the calls

Run ==
    \E bioseqs \in Collections, clargs \in ClargChoices :
        /\ run(bioseqs, clargs)
        /\ lastCall' = "run"

RunFftns ==
    \E bioseqs \in Collections :
        /\ run_fftns(bioseqs)
        /\ lastCall' = "run_fftns"

ExtractResults ==
    /\ lastCall' = "extract_results"
    /\ raised' = extract_results.raised
    /\ returned' = extract_results.returned
    /\ probed' = extract_results.probed
    /\ spawned' = FALSE
    /\ argSeqs' = None
    /\ argClargs' = None
    /\ UNCHANGED prog

ExtractDiagnostics ==
    /\ lastCall' = "extract_diagnostics"
    /\ raised' = extract_diagnostics.raised
    /\ returned' = extract_diagnostics.returned
    /\ probed' = FALSE
    /\ spawned' = FALSE
    /\ argSeqs' = None
    /\ argClargs' = None
    /\ UNCHANGED prog

Next == Run \/ RunFftns \/ ExtractResults \/ ExtractDiagnostics

Spec == Init /\ [][Next]_vars

\* ------------------------------------------------------------ properties

IsRunCall(c) == c \in {"run", "run_fftns"}
Ids(recs) == [i \in 1..Len(recs) |-> recs[i].id]
Residues(recs) == [i \in 1..Len(recs) |-> recs[i].seq]
ValidCollection(seqs) ==
    /\ 2 <= Len(seqs)
    /\ \A i \in 1..Len(seqs) : seqs[i].isrec
\* The last run wrote the input file and the tool copied it verbatim.
StubCopied ==
    /\ inseqs # None
    /\ fs[INSEQ_FILENAME] # None
    /\ fs[OUTALIGN_FILENAME] = fs[INSEQ_FILENAME]
EqualLengths(seqs) ==
    \A i, j \in 1..Len(seqs) : Len(seqs[i].seq) = Len(seqs[j].seq)
PlainIds(seqs) == \A i \in 1..Len(seqs) : Len(seqs[i].id) = 1

\* C1: a run call (run or the preset run) given a collection of length 0 or
\* 1 raises the precondition assertion, whatever the arguments.
C1_ShortCollectionRejected ==
    (IsRunCall(lastCall) /\ Len(argSeqs[1]) < 2) => raised = PreconditionError

C1_Witness ==
    /\ lastCall = "run"
    /\ Len(argSeqs[1]) = 1
    /\ argClargs[1] # <<>>
    /\ raised = PreconditionError

\* C2: while no command line has been built, extract_results raises the
\* state assertion and has not asked the file system for the output file.
C2_ExtractBeforeRun ==
    (lastCall = "extract_results" /\ curr_cline = None)
        => (raised = StateError /\ ~probed /\ returned = None)

C2_Witness ==
    /\ lastCall = "extract_results"
    /\ curr_cline = None
    /\ inseqs = None
    /\ raised = StateError

\* C3: once a run has built its command line, extract_results with no
\* outalign.fasta in the working directory raises the not-found assertion
\* and returns no alignment.
C3_MissingOutput ==
    (lastCall = "extract_results" /\ curr_cline # None
        /\ fs[OUTALIGN_FILENAME] = None)
        => (raised = NotFoundError /\ returned = None)

C3_Witness ==
    /\ lastCall = "extract_results"
    /\ status = Some(1)
    /\ fs[INSEQ_FILENAME] # None
    /\ fs[OUTALIGN_FILENAME] = None
    /\ raised = NotFoundError

\* C4: the command line a run builds is the tool path, the caller's
\* arguments in the order given, the input filename, and the redirection to
\* the output filename.
C4_CommandLineForm ==
    (IsRunCall(lastCall) /\ spawned)
        => curr_cline = Some(<<exepath>> \o Flatten(argClargs[1])
                               \o <<"inseq.fasta", ">", "outalign.fasta">>)

C4_Witness ==
    /\ lastCall = "run"
    /\ spawned
    /\ Len(argClargs[1]) = 2
    /\ curr_cline = Some(<<"/usr/bin/mafft", "--op", "3", "--quiet",
                           "inseq.fasta", ">", "outalign.fasta">>)

\* C5 as stated: for every collection of two or more sequences, when the
\* tool copied the input file to the output file, extract_results returns an
\* alignment with the identifiers of the input, in the input's order.
C5_RoundTripAnyCollection ==
    (lastCall = "extract_results" /\ StubCopied)
        => (returned # None /\ Ids(returned[1]) = Ids(inseqs[1]))

\* C5 amended: the same, for collections whose sequences all have the same
\* length and whose identifiers hold no blank.
C5_RoundTripAligned ==
    (lastCall = "extract_results" /\ StubCopied
        /\ EqualLengths(inseqs[1]) /\ PlainIds(inseqs[1]))
        => (/\ raised = NoError
            /\ returned # None
            /\ Ids(returned[1]) = Ids(inseqs[1])
            /\ Residues(returned[1]) = Residues(inseqs[1]))

C5_Witness ==
    /\ lastCall = "extract_results"
    /\ StubCopied
    /\ status = Some(0)
    /\ returned # None
    /\ Ids(returned[1]) = << <<"B">>, <<"A">> >>
    /\ Ids(inseqs[1]) = << <<"B">>, <<"A">> >>

\* C6 as stated: after a process that exited with a non-zero status,
\* extract_results returns no alignment.
C6_NoAlignmentAfterFailure ==
    (lastCall = "extract_results" /\ status # None /\ status # Some(0))
        => returned = None

\* C6 amended: extract_results returns an alignment only when a run has
\* built a command line, the process has run and outalign.fasta exists; the
\* exit status is not looked at.
C6_AlignmentNeedsOutput ==
    (lastCall = "extract_results" /\ returned # None)
        => (/\ Truthy(curr_cline)
            /\ status # None
            /\ fs[OUTALIGN_FILENAME] # None
            /\ raised = NoError)

C6_Witness ==
    /\ lastCall = "extract_results"
    /\ returned # None
    /\ status = Some(1)
    /\ fs[OUTALIGN_FILENAME] # None

\* C7: extract_diagnostics, with only the input file in the working
\* directory, returns a mapping and raises nothing.
C7_DiagnosticsTolerant ==
    (lastCall = "extract_diagnostics" /\ fs[INSEQ_FILENAME] # None
        /\ fs[OUTALIGN_FILENAME] = None)
        => (raised = NoError /\ returned # None)

\* C8: a run with two or more sequence records raises nothing, also when
\* the tool exits with a non-zero status; the status is kept, and
\* extract_results is then past its state assertion.
C8_FailureCaptured ==
    (IsRunCall(lastCall) /\ ValidCollection(argSeqs[1]))
        => (/\ raised = NoError
            /\ spawned
            /\ status \in {Some(0), Some(1)}
            /\ extract_results.raised # StateError)

C8_Witness ==
    /\ lastCall = "run"
    /\ ValidCollection(argSeqs[1])
    /\ status = Some(1)
    /\ raised = NoError
    /\ extract_results.raised = NotFoundError

\* C9: every run_fftns (bioseqs) step is a step of
\* run (bioseqs, '--retree 2', '--maxiterate 0'): the same rejection, the
\* same command line and the same state of the runner.
C9_QuickIsRun ==
    [][lastCall' = "run_fftns"
        => \E bioseqs \in Collections :
              run(bioseqs, << <<"--retree", "2">>, <<"--maxiterate", "0">> >>)]_vars

C9_Witness ==
    /\ lastCall = "run_fftns"
    /\ spawned
    /\ inseqs = argSeqs
    /\ curr_cline = Some(<<"/usr/bin/mafft", "--retree", "2", "--maxiterate",
                           "0", "inseq.fasta", ">", "outalign.fasta">>)

\* C10: a run call rejected by the precondition leaves the stored
\* sequences, the command line, the working directory and its files and the
\* kept status as they were and starts no process, so extract_results does
\* after it what it would have done before it.
C10_RejectedRunChangesNothing ==
    [][(IsRunCall(lastCall') /\ raised' = PreconditionError)
        => (/\ UNCHANGED <<inseqs, curr_cline, curr_workdir, inseq_path,
                           status, fs>>
            /\ ~spawned'
            /\ extract_results' = extract_results)]_vars

C10_Witness ==
    /\ lastCall = "run"
    /\ raised = PreconditionError
    /\ Len(argSeqs[1]) = 1
    /\ curr_cline # None
    /\ inseqs # None
    /\ fs[OUTALIGN_FILENAME] # None

====
